---- MODULE Spec2Model ----
(***************************************************************************)
(* The addressed, attributed message of src/src/lib.rs: the attribute      *)
(* block (MessageAttributes, five fields joined by `|`) and the envelope   *)
(* (AddressedAttributedMessage: address `$` attributes `$` payload), with  *)
(* their setters, serialize and deserialize.  Byte buffers (Vec<u8>) are   *)
(* sequences of byte values; Rust's 0-based indices are kept.              *)
(***************************************************************************)
EXTENDS Integers, Sequences, FiniteSets, TLC

\* Longest byte buffer a caller hands to a decoder.
MaxLen == 7
\* Most bytes the setters put into one envelope, all seven parts together.
MaxEnvLen == 3

\* MessageAttributes::DELIMITER, '|'
MA_DELIMITER == 124
\* AddressedAttributedMessage::DELIMITER, '$'
AAM_DELIMITER == 36
\* MessageAttributes::CHUNKS_LEN
CHUNKS_LEN == 5

\* The byte values of the model: both delimiters and one ordinary byte, 'a'.
Bytes == {AAM_DELIMITER, MA_DELIMITER, 97}
ByteSeqs(n) == UNION {[1..k -> Bytes] : k \in 0..n}

VARIABLES
    pc,      \* where the caller or deserialize stands
    msg,     \* the envelope at hand: the caller's object, or deserialize's local msg
    data,    \* the byte buffer at hand: serialize's output, deserialize's data
    idx,     \* the running loop's index
    end,     \* the running loop's range end, data.len() taken when the loop starts
    input,   \* the bytes the last decoder call was given
    sent,    \* the envelope the last serialize call was given
    origin   \* how that envelope came to be: "none", "setters" or "decoded"

vars == <<pc, msg, data, idx, end, input, sent, origin>>

----------------------------------------------------------------------------
\* Option<T>
None == [some |-> FALSE]
Some(x) == [some |-> TRUE, val |-> x]

\* Vec<u8> operations, with Rust's 0-based indices.
InBounds(d, i) == 0 <= i /\ i < Len(d)
At(d, i) == d[i + 1]
\* Drain with the range written ..=i: the byte at i is taken out as well.
DrainInclusive(d, i) ==
    [taken |-> SubSeq(d, 1, i + 1), rest |-> SubSeq(d, i + 2, Len(d))]
\* d.drain(..i): the bytes taken out and the bytes left in d.  Needs i <= len.
Drain(d, i) == [taken |-> SubSeq(d, 1, i), rest |-> SubSeq(d, i + 1, Len(d))]
\* d.remove(0).  Needs a non-empty d.
RemoveFirst(d) == SubSeq(d, 2, Len(d))

\* data.split(|b| *b == delim).collect(): the chunks between the delimiters,
\* one more than there are delimiters; the empty slice gives one empty chunk.
RECURSIVE SplitFrom(_, _, _, _)
SplitFrom(d, delim, start, i) ==
    IF i > Len(d) THEN <<SubSeq(d, start, Len(d))>>
    ELSE IF d[i] = delim
         THEN <<SubSeq(d, start, i - 1)>> \o SplitFrom(d, delim, i + 1, i + 1)
         ELSE SplitFrom(d, delim, start, i + 1)
Split(d, delim) == SplitFrom(d, delim, 1, 1)

----------------------------------------------------------------------------
\* MessageAttributes

MessageAttributes_default ==
    [content_type |-> <<>>, descriptor |-> <<>>, sender_group |-> <<>>,
     sender_entity_id |-> <<>>, sender_service_id |-> <<>>]

MessageAttributes_set_content_type(a, val) == [a EXCEPT !.content_type = val]
MessageAttributes_set_descriptor(a, val) == [a EXCEPT !.descriptor = val]
MessageAttributes_set_sender_group(a, val) == [a EXCEPT !.sender_group = val]
MessageAttributes_set_sender_entity_id(a, val) == [a EXCEPT !.sender_entity_id = val]
MessageAttributes_set_sender_service_id(a, val) == [a EXCEPT !.sender_service_id = val]

\* deserialize with the count tested by < : six chunks and more pass.
MessageAttributes_deserialize_AtLeast(d) ==
    LET chunks == Split(d, MA_DELIMITER)
    IN  IF Len(chunks) < CHUNKS_LEN
        THEN None
        ELSE Some([content_type |-> chunks[1], descriptor |-> chunks[2],
                   sender_group |-> chunks[3], sender_entity_id |-> chunks[4],
                   sender_service_id |-> chunks[5]])

\* deserialize with chunks[3] assigned to both sender ids.
MessageAttributes_deserialize_Pasted(d) ==
    LET chunks == Split(d, MA_DELIMITER)
    IN  IF Len(chunks) # CHUNKS_LEN
        THEN None
        ELSE Some([content_type |-> chunks[1], descriptor |-> chunks[2],
                   sender_group |-> chunks[3], sender_entity_id |-> chunks[4],
                   sender_service_id |-> chunks[4]])

\* MessageAttributes::deserialize
MessageAttributes_deserialize(d) ==
    LET chunks == Split(d, MA_DELIMITER)
    IN  IF Len(chunks) # CHUNKS_LEN
        THEN None
        ELSE Some([content_type |-> chunks[1], descriptor |-> chunks[2],
                   sender_group |-> chunks[3], sender_entity_id |-> chunks[4],
                   sender_service_id |-> chunks[5]])

\* serialize with a delimiter pushed after the last field too.
MessageAttributes_serialize_Trailing(a) ==
    LET v0 == <<>>
        v1 == Append(v0 \o a.content_type, MA_DELIMITER)
        v2 == Append(v1 \o a.descriptor, MA_DELIMITER)
        v3 == Append(v2 \o a.sender_group, MA_DELIMITER)
        v4 == Append(v3 \o a.sender_entity_id, MA_DELIMITER)
    IN  Append(v4 \o a.sender_service_id, MA_DELIMITER)

\* MessageAttributes::serialize: append moves each field into v, push adds a
\* delimiter after each field but the last.
MessageAttributes_serialize(a) ==
    LET v0 == <<>>
        v1 == Append(v0 \o a.content_type, MA_DELIMITER)
        v2 == Append(v1 \o a.descriptor, MA_DELIMITER)
        v3 == Append(v2 \o a.sender_group, MA_DELIMITER)
        v4 == Append(v3 \o a.sender_entity_id, MA_DELIMITER)
    IN  v4 \o a.sender_service_id

----------------------------------------------------------------------------
\* AddressedAttributedMessage

AddressedAttributedMessage_default ==
    [address |-> <<>>, attributes |-> MessageAttributes_default, payload |-> <<>>]

\* serialize with a delimiter pushed after the payload too.
AddressedAttributedMessage_serialize_Trailing(m) ==
    LET v0 == <<>>
        v1 == Append(v0 \o m.address, AAM_DELIMITER)
        v2 == Append(v1 \o MessageAttributes_serialize(m.attributes), AAM_DELIMITER)
    IN  Append(v2 \o m.payload, AAM_DELIMITER)

\* AddressedAttributedMessage::serialize
AddressedAttributedMessage_serialize(m) ==
    LET v0 == <<>>
        v1 == Append(v0 \o m.address, AAM_DELIMITER)
        v2 == Append(v1 \o MessageAttributes_serialize(m.attributes), AAM_DELIMITER)
    IN  v2 \o m.payload

set_address(m, val) == [m EXCEPT !.address = val]
set_payload(m, val) == [m EXCEPT !.payload = val]
set_content_type(m, val) ==
    [m EXCEPT !.attributes = MessageAttributes_set_content_type(@, val)]
set_descriptor(m, val) ==
    [m EXCEPT !.attributes = MessageAttributes_set_descriptor(@, val)]
set_sender_group(m, val) ==
    [m EXCEPT !.attributes = MessageAttributes_set_sender_group(@, val)]
set_sender_entity_id(m, val) ==
    [m EXCEPT !.attributes = MessageAttributes_set_sender_entity_id(@, val)]
set_sender_service_id(m, val) ==
    [m EXCEPT !.attributes = MessageAttributes_set_sender_service_id(@, val)]

\* The first loop's body without data.remove(0): the `$` stays in the buffer.
AddrBodyNoRemove(d, i) ==
    IF ~InBounds(d, i)
    THEN [kind |-> "panic", data |-> d, address |-> None]
    ELSE IF At(d, i) = AAM_DELIMITER
         THEN LET dr == Drain(d, i)
              IN  [kind |-> "break", data |-> dr.rest, address |-> Some(dr.taken)]
         ELSE [kind |-> "continue", data |-> d, address |-> None]

\* The first loop's body without break: the loop runs on over the shortened
\* buffer.
AddrBodyNoBreak(d, i) ==
    IF ~InBounds(d, i)
    THEN [kind |-> "panic", data |-> d, address |-> None]
    ELSE IF At(d, i) = AAM_DELIMITER
         THEN LET dr == Drain(d, i)
              IN  IF i > Len(d) \/ Len(dr.rest) = 0
                  THEN [kind |-> "panic", data |-> dr.rest, address |-> None]
                  ELSE [kind |-> "continue", data |-> RemoveFirst(dr.rest),
                        address |-> Some(dr.taken)]
         ELSE [kind |-> "continue", data |-> d, address |-> None]

\* The body of deserialize's first loop ("Get address") at index i of buffer d:
\* the buffer it leaves, the address it assigns (None: msg.address is left
\* alone) and how the loop goes on.  data[idx] out of bounds, drain(..idx)
\* beyond the length and remove(0) on an empty buffer panic.
AddrBody(d, i) ==
    IF ~InBounds(d, i)
    THEN [kind |-> "panic", data |-> d, address |-> None]
    ELSE IF At(d, i) = AAM_DELIMITER
         THEN LET dr == Drain(d, i)
              IN  IF i > Len(d) \/ Len(dr.rest) = 0
                  THEN [kind |-> "panic", data |-> dr.rest, address |-> None]
                  ELSE [kind |-> "break", data |-> RemoveFirst(dr.rest),
                        address |-> Some(dr.taken)]
         ELSE [kind |-> "continue", data |-> d, address |-> None]

\* The second loop's body without data.remove(0).
AttrBodyNoRemove(d, i) ==
    IF ~InBounds(d, i)
    THEN [kind |-> "panic", data |-> d, attributes |-> None]
    ELSE IF At(d, i) = AAM_DELIMITER
         THEN LET dr == Drain(d, i)
                  attrs == MessageAttributes_deserialize(dr.taken)
              IN  IF attrs.some
                  THEN [kind |-> "break", data |-> dr.rest, attributes |-> attrs]
                  ELSE [kind |-> "return_none", data |-> dr.rest, attributes |-> None]
         ELSE [kind |-> "continue", data |-> d, attributes |-> None]

\* The second loop's body with the None arm breaking instead of returning:
\* the default attributes stay in msg.
AttrBodyKeepDefault(d, i) ==
    IF ~InBounds(d, i)
    THEN [kind |-> "panic", data |-> d, attributes |-> None]
    ELSE IF At(d, i) = AAM_DELIMITER
         THEN LET dr == Drain(d, i)
                  attrs == MessageAttributes_deserialize(dr.taken)
              IN  IF i > Len(d) \/ Len(dr.rest) = 0
                  THEN [kind |-> "panic", data |-> dr.rest, attributes |-> None]
                  ELSE [kind |-> "break", data |-> RemoveFirst(dr.rest),
                        attributes |-> attrs]
         ELSE [kind |-> "continue", data |-> d, attributes |-> None]

\* The body of deserialize's second loop ("Get attributes"): the buffer it
\* leaves, the attributes it assigns (None: msg.attributes is left alone) and
\* how the loop goes on; "return_none" is the early return None.
AttrBody(d, i) ==
    IF ~InBounds(d, i)
    THEN [kind |-> "panic", data |-> d, attributes |-> None]
    ELSE IF At(d, i) = AAM_DELIMITER
         THEN LET dr == Drain(d, i)
                  attrs == MessageAttributes_deserialize(dr.taken)
              IN  IF i > Len(d) \/ Len(dr.rest) = 0
                  THEN [kind |-> "panic", data |-> dr.rest, attributes |-> None]
                  ELSE IF attrs.some
                       THEN [kind |-> "break", data |-> RemoveFirst(dr.rest),
                             attributes |-> attrs]
                       ELSE [kind |-> "return_none", data |-> RemoveFirst(dr.rest),
                             attributes |-> None]
         ELSE [kind |-> "continue", data |-> d, attributes |-> None]

----------------------------------------------------------------------------
EnvLen(m) ==
    Len(m.address) + Len(m.attributes.content_type) + Len(m.attributes.descriptor)
    + Len(m.attributes.sender_group) + Len(m.attributes.sender_entity_id)
    + Len(m.attributes.sender_service_id) + Len(m.payload)

Init ==
    /\ pc = "idle"
    /\ msg = AddressedAttributedMessage_default
    /\ data = <<>>
    /\ idx = 0
    /\ end = 0
    /\ input = <<>>
    /\ sent = AddressedAttributedMessage_default
    /\ origin = "none"

\* AddressedAttributedMessage::default()
New ==
    /\ pc = "idle"
    /\ pc' = "build"
    /\ msg' = AddressedAttributedMessage_default
    /\ UNCHANGED <<data, idx, end, input, sent, origin>>

\* The longest value a setter may store in a field that now holds cur, so that
\* the envelope keeps to MaxEnvLen bytes.
Room(cur) == MaxEnvLen - EnvLen(msg) + Len(cur)

\* A setter call leaves the object under construction as m.
Set(m) ==
    /\ msg' = m
    /\ UNCHANGED <<pc, data, idx, end, input, sent, origin>>

SetAddress ==
    /\ pc = "build"
    /\ \E val \in ByteSeqs(Room(msg.address)) : Set(set_address(msg, val))
SetPayload ==
    /\ pc = "build"
    /\ \E val \in ByteSeqs(Room(msg.payload)) : Set(set_payload(msg, val))
SetContentType ==
    /\ pc = "build"
    /\ \E val \in ByteSeqs(Room(msg.attributes.content_type)) :
          Set(set_content_type(msg, val))
SetDescriptor ==
    /\ pc = "build"
    /\ \E val \in ByteSeqs(Room(msg.attributes.descriptor)) :
          Set(set_descriptor(msg, val))
SetSenderGroup ==
    /\ pc = "build"
    /\ \E val \in ByteSeqs(Room(msg.attributes.sender_group)) :
          Set(set_sender_group(msg, val))
SetSenderEntityId ==
    /\ pc = "build"
    /\ \E val \in ByteSeqs(Room(msg.attributes.sender_entity_id)) :
          Set(set_sender_entity_id(msg, val))
SetSenderServiceId ==
    /\ pc = "build"
    /\ \E val \in ByteSeqs(Room(msg.attributes.sender_service_id)) :
          Set(set_sender_service_id(msg, val))

\* msg.serialize(), on an object built with the setters or returned by
\* deserialize.  The object is consumed: append moves every buffer out of it.
Serialize ==
    /\ pc \in {"build", "some"}
    /\ data' = AddressedAttributedMessage_serialize(msg)
    /\ sent' = msg
    /\ origin' = IF pc = "build" THEN "setters" ELSE "decoded"
    /\ msg' = AddressedAttributedMessage_default
    /\ pc' = "wire"
    /\ UNCHANGED <<idx, end, input>>

\* AddressedAttributedMessage::deserialize(x) is entered: msg is the default
\* envelope and the first loop's range is 0..data.len().
Enter(x) ==
    /\ input' = x
    /\ data' = x
    /\ msg' = AddressedAttributedMessage_default
    /\ idx' = 0
    /\ end' = Len(x)
    /\ pc' = "addr"
    /\ UNCHANGED <<sent, origin>>

\* deserialize of bytes that come from outside.
DeserializeInput == pc = "idle" /\ \E x \in ByteSeqs(MaxLen) : Enter(x)
\* deserialize of the bytes serialize produced.
DeserializeWire == pc = "wire" /\ Enter(data)

\* One iteration of the first loop.
AddrIter ==
    /\ pc = "addr"
    /\ idx < end
    /\ LET r == AddrBody(data, idx)
       IN  /\ data' = r.data
           /\ msg' = IF r.address.some THEN [msg EXCEPT !.address = r.address.val] ELSE msg
           /\ pc' = CASE r.kind = "panic" -> "panic"
                      [] r.kind = "break" -> "attr"
                      [] OTHER -> "addr"
           /\ idx' = IF r.kind = "break" THEN 0 ELSE idx + 1
           /\ end' = IF r.kind = "break" THEN Len(r.data) ELSE end
    /\ UNCHANGED <<input, sent, origin>>

\* The first loop's range is exhausted: no `$` was found.
AddrExit ==
    /\ pc = "addr"
    /\ idx = end
    /\ pc' = "attr"
    /\ idx' = 0
    /\ end' = Len(data)
    /\ UNCHANGED <<msg, data, input, sent, origin>>

\* One iteration of the second loop.
AttrIter ==
    /\ pc = "attr"
    /\ idx < end
    /\ LET r == AttrBody(data, idx)
       IN  /\ data' = r.data
           /\ msg' = IF r.attributes.some
                     THEN [msg EXCEPT !.attributes = r.attributes.val]
                     ELSE msg
           /\ pc' = CASE r.kind = "panic" -> "panic"
                      [] r.kind = "break" -> "payload"
                      [] r.kind = "return_none" -> "none"
                      [] OTHER -> "attr"
           /\ idx' = IF r.kind = "continue" THEN idx + 1 ELSE idx
    /\ UNCHANGED <<end, input, sent, origin>>

\* The second loop's range is exhausted: no `$` was found.
AttrExit ==
    /\ pc = "attr"
    /\ idx = end
    /\ pc' = "payload"
    /\ UNCHANGED <<msg, data, idx, end, input, sent, origin>>

\* msg.set_payload(data); Some(msg)
Finish ==
    /\ pc = "payload"
    /\ msg' = set_payload(msg, data)
    /\ data' = <<>>
    /\ pc' = "some"
    /\ UNCHANGED <<idx, end, input, sent, origin>>

\* MessageAttributes::deserialize(x) called on its own; the attributes it
\* returns are kept in msg.attributes.
AttributesDeserialize ==
    /\ pc = "idle"
    /\ \E x \in ByteSeqs(MaxLen) :
         LET r == MessageAttributes_deserialize(x)
         IN  /\ input' = x
             /\ pc' = IF r.some THEN "attrs_some" ELSE "attrs_none"
             /\ msg' = IF r.some
                       THEN [AddressedAttributedMessage_default EXCEPT !.attributes = r.val]
                       ELSE AddressedAttributedMessage_default
    /\ UNCHANGED <<data, idx, end, sent, origin>>

Step == AddrIter \/ AddrExit \/ AttrIter \/ AttrExit \/ Finish

Next ==
    \/ New
    \/ SetAddress
    \/ SetPayload
    \/ SetContentType
    \/ SetDescriptor
    \/ SetSenderGroup
    \/ SetSenderEntityId
    \/ SetSenderServiceId
    \/ Serialize
    \/ DeserializeInput
    \/ DeserializeWire
    \/ AddrIter
    \/ AddrExit
    \/ AttrIter
    \/ AttrExit
    \/ Finish
    \/ AttributesDeserialize

Spec == Init /\ [][Next]_vars

\* deserialize is straight-line sequential code: once entered, it keeps
\* taking its next step.
LiveSpec == Spec /\ WF_vars(Step)

----------------------------------------------------------------------------
\* What the properties speak of, stated on the bytes themselves.

Has(s, b) == \E i \in DOMAIN s : s[i] = b
Count(s, b) == Cardinality({i \in DOMAIN s : s[i] = b})
\* The place of the k-th b in s, for k = 1 and k = 2.
FirstAt(s, b) == CHOOSE i \in DOMAIN s : s[i] = b /\ \A j \in 1..(i - 1) : s[j] # b
SecondAt(s, b) ==
    CHOOSE i \in DOMAIN s :
        /\ i > FirstAt(s, b)
        /\ s[i] = b
        /\ \A j \in (FirstAt(s, b) + 1)..(i - 1) : s[j] # b
\* The three parts of a frame x that holds at least two `$`.
FrameAddress(x) == SubSeq(x, 1, FirstAt(x, AAM_DELIMITER) - 1)
FrameSection(x) == SubSeq(x, FirstAt(x, AAM_DELIMITER) + 1, SecondAt(x, AAM_DELIMITER) - 1)
FramePayload(x) == SubSeq(x, SecondAt(x, AAM_DELIMITER) + 1, Len(x))
WellFormed(x) ==
    /\ Count(x, AAM_DELIMITER) >= 2
    /\ Count(FrameSection(x), MA_DELIMITER) = 4

Fields(a) ==
    <<a.content_type, a.descriptor, a.sender_group, a.sender_entity_id,
      a.sender_service_id>>
Block(a) ==
    a.content_type \o <<MA_DELIMITER>> \o a.descriptor \o <<MA_DELIMITER>>
    \o a.sender_group \o <<MA_DELIMITER>> \o a.sender_entity_id
    \o <<MA_DELIMITER>> \o a.sender_service_id
FieldsFree(a, b) == \A k \in 1..5 : ~Has(Fields(a)[k], b)

\* deserialize has returned.
Returned == pc \in {"some", "none"}
\* deserialize has returned the envelope it was given the encoding of.
RoundTrip == pc = "some" /\ msg = sent
\* deserialize has returned from the bytes of an envelope built with the setters.
DecodedBuilt == Returned /\ origin = "setters"

----------------------------------------------------------------------------
\* C1 (as stated): an envelope whose address and encoded attribute block hold
\* no `$`, with nothing else asked of its fields, decodes from its encoding to
\* itself.
C1_RoundTripAsStated ==
    (DecodedBuilt /\ ~Has(sent.address, AAM_DELIMITER)
                  /\ ~Has(Block(sent.attributes), AAM_DELIMITER))
        => RoundTrip

\* C1 (amended): an envelope whose address and encoded attribute block hold no
\* `$` and whose attribute fields hold no `|` decodes from its encoding to
\* itself, in address, all five attribute fields and payload.
C1_RoundTrip ==
    (DecodedBuilt /\ ~Has(sent.address, AAM_DELIMITER)
                  /\ ~Has(Block(sent.attributes), AAM_DELIMITER)
                  /\ FieldsFree(sent.attributes, MA_DELIMITER))
        => RoundTrip

C1_Witness ==
    /\ DecodedBuilt
    /\ RoundTrip
    /\ sent.address # <<>>
    /\ sent.attributes.descriptor # <<>>
    /\ Has(sent.payload, AAM_DELIMITER)

\* C2: deserialize of an input that holds fewer than two `$` returns None.
C2_FewerThanTwoDelimitersFail ==
    (Returned /\ Count(input, AAM_DELIMITER) < 2) => pc = "none"

\* C3: MessageAttributes::deserialize succeeds exactly on the inputs with four
\* `|`, and then its five fields are the chunks between them, in order, empty
\* chunks kept as empty fields.
C3_ExactCount ==
    (pc \in {"attrs_some", "attrs_none"}) =>
        /\ pc = "attrs_some" <=> Count(input, MA_DELIMITER) = 4
        /\ pc = "attrs_some" =>
              /\ Block(msg.attributes) = input
              /\ FieldsFree(msg.attributes, MA_DELIMITER)

C3_Witness ==
    /\ pc = "attrs_some"
    /\ msg.attributes.content_type # <<>>
    /\ msg.attributes.sender_group = <<>>
    /\ msg.attributes.sender_service_id # <<>>

\* C4: on a frame with at least two `$` and four `|` between the first two,
\* deserialize returns the bytes before the first `$` as address, the chunks of
\* the section between the first two `$` as attributes, and every byte after
\* the second `$` as payload.
C4_FirstMatchFraming ==
    (Returned /\ WellFormed(input)) =>
        /\ pc = "some"
        /\ msg.address = FrameAddress(input)
        /\ Block(msg.attributes) = FrameSection(input)
        /\ FieldsFree(msg.attributes, MA_DELIMITER)
        /\ msg.payload = FramePayload(input)

C4_Witness ==
    /\ pc = "some"
    /\ origin = "none"
    /\ WellFormed(input)
    /\ Has(msg.payload, AAM_DELIMITER)

\* C5: on an input with at least two `$` whose section between the first two
\* does not hold exactly four `|`, deserialize returns None.
C5_AttributeFailurePropagates ==
    (Returned /\ Count(input, AAM_DELIMITER) >= 2
              /\ Count(FrameSection(input), MA_DELIMITER) # 4)
        => pc = "none"

C5_Witness ==
    /\ pc = "none"
    /\ Count(input, AAM_DELIMITER) >= 2
    /\ Count(FrameSection(input), MA_DELIMITER) = 5

\* C6: serialize returns address, `$`, the five fields joined by `|`, `$`,
\* payload and nothing more; the default envelope encodes to `$||||$`.
C6_WireFormat ==
    pc = "wire" =>
        /\ data = sent.address \o <<AAM_DELIMITER>> \o sent.attributes.content_type
                  \o <<MA_DELIMITER>> \o sent.attributes.descriptor
                  \o <<MA_DELIMITER>> \o sent.attributes.sender_group
                  \o <<MA_DELIMITER>> \o sent.attributes.sender_entity_id
                  \o <<MA_DELIMITER>> \o sent.attributes.sender_service_id
                  \o <<AAM_DELIMITER>> \o sent.payload
        /\ Len(data) = Len(sent.address) + 1
                       + (Len(sent.attributes.content_type)
                          + Len(sent.attributes.descriptor)
                          + Len(sent.attributes.sender_group)
                          + Len(sent.attributes.sender_entity_id)
                          + Len(sent.attributes.sender_service_id) + 4)
                       + 1 + Len(sent.payload)
        /\ sent = AddressedAttributedMessage_default =>
              data = <<AAM_DELIMITER, MA_DELIMITER, MA_DELIMITER, MA_DELIMITER,
                       MA_DELIMITER, AAM_DELIMITER>>

C6_Witness ==
    /\ pc = "wire"
    /\ origin = "setters"
    /\ sent.address # <<>>
    /\ sent.attributes.sender_entity_id # <<>>
    /\ sent.payload # <<>>

\* C7: a frame with at least two `$` and four `|` between the first two decodes,
\* and the envelope it decodes to encodes to the frame again, byte for byte.
C7_ReencodeReproducesFrame ==
    /\ (Returned /\ WellFormed(input)) => pc = "some"
    /\ (pc = "wire" /\ origin = "decoded" /\ WellFormed(input)) => data = input

C7_Witness ==
    /\ pc = "wire"
    /\ origin = "decoded"
    /\ WellFormed(input)
    /\ data = input
    /\ Count(input, AAM_DELIMITER) >= 3

\* C8: an envelope built with the setters decodes from its encoding to itself
\* exactly when its address holds no `$` and none of its attribute fields holds
\* `|` or `$`; otherwise decode fails or returns another envelope.
C8_ExactRoundTripCondition ==
    DecodedBuilt =>
        (RoundTrip <=> /\ ~Has(sent.address, AAM_DELIMITER)
                       /\ FieldsFree(sent.attributes, MA_DELIMITER)
                       /\ FieldsFree(sent.attributes, AAM_DELIMITER))

C8_Witness ==
    /\ DecodedBuilt
    /\ pc = "some"
    /\ msg # sent
    /\ ~FieldsFree(sent.attributes, MA_DELIMITER)

\* C9: deserialize never indexes, drains or removes out of bounds, and once
\* entered it returns Some or None.
C9_TotalNoFault ==
    /\ [](pc # "panic")
    /\ (pc \in {"addr", "attr", "payload"}) ~> Returned

C9_Witness ==
    /\ pc = "some"
    /\ Count(input, AAM_DELIMITER) >= 3
    /\ input[Len(input)] = AAM_DELIMITER
    /\ end > 0

\* C10: an envelope deserialize returns holds no `$` in its address and no `|`
\* or `$` in its attribute fields, and decodes from its own encoding to itself.
C10_DecodedNormalForm ==
    /\ pc = "some" =>
          /\ ~Has(msg.address, AAM_DELIMITER)
          /\ FieldsFree(msg.attributes, MA_DELIMITER)
          /\ FieldsFree(msg.attributes, AAM_DELIMITER)
    /\ (Returned /\ origin = "decoded") => RoundTrip

C10_Witness ==
    /\ pc = "some"
    /\ origin = "decoded"
    /\ msg = sent
    /\ msg.address # <<>>
    /\ msg.attributes = MessageAttributes_default
    /\ Has(msg.payload, MA_DELIMITER)

====
